---- MODULE Spec2Model ----
(***************************************************************************)
(* Model of the Forex Power System: the webhook server (src/app.py) and    *)
(* the fundamental overlay with its cache (src/real_fundamental_engine.py).*)
(*                                                                         *)
(* Numbers.  Python floats are modelled as fixed-point integers:           *)
(*   confidences            in hundredths   (0.95 -> 95, 0.05 -> 5)        *)
(*   returns                in tenths       (79.5 -> 795)                  *)
(*   position sizes, Kelly  in thousandths  (5.0 -> 5000), rounded down    *)
(* avg_confidence is kept as the exact fraction [num, den] = sum / len.    *)
(* Binary floating-point rounding is outside the model.                    *)
(*                                                                         *)
(* Strings are sequences of one-character strings, so that str.upper()     *)
(* and the f-string that builds the pattern key are computed, not assumed. *)
(*                                                                         *)
(* Left out of an EnhancedSignal: 'timestamp', 'action' and 'raw_data',    *)
(* which no modelled operation reads.                                      *)
(***************************************************************************)
EXTENDS Integers, Sequences, FiniteSets, TLC

VARIABLES
    signals_history,    \* the deque of retained EnhancedSignals, oldest first
    performance_stats,  \* the process-wide aggregate
    appended,           \* history variable: every signal ever appended, in order
    request,            \* the request handled last (or the argument under test)
    enhanced,           \* what enhance_signal returned for it
    resp,               \* the HTTP response to it
    pc,                 \* where each concurrently running call stands
    local,              \* the local variables of each such call
    observed,           \* what a reader saw last
    cache,              \* RealFundamentalEngine.cache
    now,                \* the wall clock, in seconds
    calls               \* history variable: the get_cached_or_fetch calls made

serverVars == <<signals_history, performance_stats, appended, request, enhanced, resp>>
threadVars == <<pc, local, observed>>
cacheVars == <<cache, now, calls>>

vars == <<signals_history, performance_stats, appended, request, enhanced, resp,
          pc, local, observed, cache, now, calls>>

----------------------------------------------------------------------------
(* Bounds and program constants *)

\* stands for deque(maxlen=1000): the capacity of the rolling history
HistoryCap == 2

\* appends allowed in a run: enough to evict twice
MaxAppends == HistoryCap + 2

\* request handlers (or cache callers) running at the same time
NumThreads == 2

\* signals the threaded server stores in a run (failing requests are not counted)
MaxRequests == 2

\* self.cache_duration, in seconds
CacheDuration == 300

\* the clock moves in steps of TickSeconds up to MaxTime
TickSeconds == 100
MaxTime == 700

\* get_cached_or_fetch calls made in a run
MaxCalls == 3

ConfidenceCap == 95
PositionCap == 5000
DefaultConfidence == 65
DefaultPositionSize == 2000
FallbackBoost == 5
FallbackReturn == 150
FallbackKelly == 1000
StrongAbove == 80
ModerateAbove == 65
HighConfidenceAbove == 80
TestConfidence == 72

----------------------------------------------------------------------------
(* Strings *)

LowerChars == <<"a","b","c","d","e","f","g","h","i","j","k","l","m",
                "n","o","p","q","r","s","t","u","v","w","x","y","z">>
UpperChars == <<"A","B","C","D","E","F","G","H","I","J","K","L","M",
                "N","O","P","Q","R","S","T","U","V","W","X","Y","Z">>

UpperChar(c) ==
    IF \E i \in 1..Len(LowerChars) : LowerChars[i] = c
    THEN UpperChars[CHOOSE i \in 1..Len(LowerChars) : LowerChars[i] = c]
    ELSE c

\* str.upper()
Upper(s) == [i \in 1..Len(s) |-> UpperChar(s[i])]

GBPUSD == <<"G","B","P","U","S","D">>
AUDCAD == <<"A","U","D","C","A","D">>
NZDUSD == <<"N","Z","D","U","S","D">>
EURUSD == <<"E","U","R","U","S","D">>
USDCHF == <<"U","S","D","C","H","F">>
NZDCAD == <<"N","Z","D","C","A","D">>
GBPAUD == <<"G","B","P","A","U","D">>
GBPNZD == <<"G","B","P","N","Z","D">>
EURCAD == <<"E","U","R","C","A","D">>
GBPCHF == <<"G","B","P","C","H","F">>
XXXYYY == <<"X","X","X","Y","Y","Y">>
UNKNOWN == <<"U","N","K","N","O","W","N">>
gbpusd == <<"g","b","p","u","s","d">>
DAILY == <<"D","A","I","L","Y">>
WEEKLY == <<"W","E","E","K","L","Y">>
H4 == <<"4","H">>
daily == <<"d","a","i","l","y">>
h4 == <<"4","h">>
MONTHLY == <<"M","O","N","T","H","L","Y">>

\* f"{pair}_{timeframe}"
PatternKey(pair, timeframe) == pair \o <<"_">> \o timeframe

----------------------------------------------------------------------------
(* JSON values: t is the type, s the characters of a string, n the number  *)
(* (for "numstr", a string that float() parses, n is the parsed value)     *)

Absent == [t |-> "absent", s |-> <<>>, n |-> 0]
JNull == [t |-> "null", s |-> <<>>, n |-> 0]
JList == [t |-> "list", s |-> <<>>, n |-> 0]
JStr(s) == [t |-> "str", s |-> s, n |-> 0]
JNum(n) == [t |-> "num", s |-> <<>>, n |-> n]
JNumStr(n) == [t |-> "numstr", s |-> <<"n">>, n |-> n]

\* dict.get(key, default): the default only when the key is absent
Get(d, key, default) == IF d[key].t = "absent" THEN default ELSE d[key]

\* float(x) succeeds for numbers and numeric strings, raises otherwise
FloatOk(x) == x.t \in {"num", "numstr"}
Float(x) == x.n

\* x.upper() exists for strings only
IsStr(x) == x.t \in {"str", "numstr"}

\* format(x) inside an f-string: strings as they are, others by their repr
Format(x) ==
    CASE x.t \in {"str", "numstr"} -> x.s
      [] x.t = "num" -> <<"#">>
      [] x.t = "null" -> <<"N","o","n","e">>
      [] OTHER -> <<"[","]">>

\* set.add(x) raises TypeError for an unhashable x
Hashable(x) == x.t # "list"

----------------------------------------------------------------------------
(* The static pattern table *)

Pattern(b, e, c) == [base_return |-> b, enhanced_return |-> e, confidence_boost |-> c]

power_patterns ==
    PatternKey(GBPUSD, DAILY) :> Pattern(795, 1330, 18) @@
    PatternKey(AUDCAD, DAILY) :> Pattern(774, 1298, 20) @@
    PatternKey(NZDUSD, WEEKLY) :> Pattern(617, 1059, 18) @@
    PatternKey(EURUSD, H4) :> Pattern(432, 720, 19) @@
    PatternKey(USDCHF, DAILY) :> Pattern(412, 709, 18) @@
    PatternKey(NZDCAD, WEEKLY) :> Pattern(254, 425, 15) @@
    PatternKey(GBPAUD, DAILY) :> Pattern(253, 443, 12) @@
    PatternKey(GBPNZD, DAILY) :> Pattern(213, 357, 14) @@
    PatternKey(EURCAD, WEEKLY) :> Pattern(138, 242, 15) @@
    PatternKey(GBPNZD, H4) :> Pattern(112, 191, 20) @@
    PatternKey(GBPCHF, WEEKLY) :> Pattern(95, 163, 16)

----------------------------------------------------------------------------
(* SignalProcessor.enhance_signal *)

Min(a, b) == IF a < b THEN a ELSE b

\* Python's None, and the value of `enhanced` before any call
None == [py |-> "None"]
NotCalled == [py |-> "not called"]

\* the fields of a JSON object that the code reads; Absent marks a missing key
SignalFields == {"ticker", "symbol", "timeframe", "confidence", "position_size"}
NoFields == [f \in SignalFields |-> Absent]
Obj(ticker, symbol, timeframe, confidence, position_size) ==
    [ticker |-> ticker, symbol |-> symbol, timeframe |-> timeframe,
     confidence |-> confidence, position_size |-> position_size]

\* a parsed JSON value: an object with its fields, or another kind of value
JObject(o) == [kind |-> "object", obj |-> o]
JOther(k) == [kind |-> k, obj |-> NoFields]

\* signal_data.get('ticker', signal_data.get('symbol', 'UNKNOWN'))
PairOf(o) == Get(o, "ticker", Get(o, "symbol", JStr(UNKNOWN)))
\* signal_data.get('timeframe', 'DAILY'), before .upper()
TimeframeOf(o) == Get(o, "timeframe", JStr(DAILY))
\* signal_data.get('confidence', 0.65), before float()
ConfidenceOf(o) == Get(o, "confidence", JNum(DefaultConfidence))
\* signal_data.get('position_size', 2.0), before float()
PositionOf(o) == Get(o, "position_size", JNum(DefaultPositionSize))

\* SignalStrength with the thresholds themselves counted in
SignalStrengthInclusive(c) ==
    IF c >= StrongAbove THEN "STRONG"
    ELSE IF c >= ModerateAbove THEN "MODERATE" ELSE "WEAK"

\* 'STRONG' if c > 0.8 else 'MODERATE' if c > 0.65 else 'WEAK'
SignalStrength(c) ==
    IF c > StrongAbove THEN "STRONG"
    ELSE IF c > ModerateAbove THEN "MODERATE" ELSE "WEAK"

\* PowerUpgrade without the min(0.95, ...) on the confidence
PowerUpgradeNoConfidenceCap(o, timeframe, base_confidence, pattern_data) ==
    LET enhanced_confidence == base_confidence + pattern_data.confidence_boost
        base_position_size == Float(PositionOf(o))
    IN  [pair |-> PairOf(o),
         timeframe |-> timeframe,
         original_confidence |-> base_confidence,
         enhanced_confidence |-> enhanced_confidence,
         confidence_improvement |-> enhanced_confidence - base_confidence,
         original_position_size |-> base_position_size,
         enhanced_position_size |->
            Min(PositionCap,
                (base_position_size * pattern_data.enhanced_return * 3)
                    \div (pattern_data.base_return * 10)),
         kelly_multiplier |-> (pattern_data.enhanced_return * 1000) \div pattern_data.base_return,
         expected_return |-> pattern_data.enhanced_return,
         power_upgrade_applied |-> TRUE,
         signal_strength |-> SignalStrength(enhanced_confidence)]

\* PowerUpgrade without the min(5.0, ...) on the position size
PowerUpgradeNoPositionCap(o, timeframe, base_confidence, pattern_data) ==
    LET enhanced_confidence ==
            Min(ConfidenceCap, base_confidence + pattern_data.confidence_boost)
        base_position_size == Float(PositionOf(o))
    IN  [pair |-> PairOf(o),
         timeframe |-> timeframe,
         original_confidence |-> base_confidence,
         enhanced_confidence |-> enhanced_confidence,
         confidence_improvement |-> enhanced_confidence - base_confidence,
         original_position_size |-> base_position_size,
         enhanced_position_size |->
            (base_position_size * pattern_data.enhanced_return * 3)
                \div (pattern_data.base_return * 10),
         kelly_multiplier |-> (pattern_data.enhanced_return * 1000) \div pattern_data.base_return,
         expected_return |-> pattern_data.enhanced_return,
         power_upgrade_applied |-> TRUE,
         signal_strength |-> SignalStrength(enhanced_confidence)]

\* the branch taken when pattern_key is in power_patterns
PowerUpgrade(o, timeframe, base_confidence, pattern_data) ==
    LET confidence_boost == pattern_data.confidence_boost
        enhanced_confidence == Min(ConfidenceCap, base_confidence + confidence_boost)
        kelly_multiplier == (pattern_data.enhanced_return * 1000) \div pattern_data.base_return
        base_position_size == Float(PositionOf(o))
        enhanced_position_size ==
            Min(PositionCap,
                (base_position_size * pattern_data.enhanced_return * 3)
                    \div (pattern_data.base_return * 10))
    IN  [pair |-> PairOf(o),
         timeframe |-> timeframe,
         original_confidence |-> base_confidence,
         enhanced_confidence |-> enhanced_confidence,
         confidence_improvement |-> enhanced_confidence - base_confidence,
         original_position_size |-> base_position_size,
         enhanced_position_size |-> enhanced_position_size,
         kelly_multiplier |-> kelly_multiplier,
         expected_return |-> pattern_data.enhanced_return,
         power_upgrade_applied |-> TRUE,
         signal_strength |-> SignalStrength(enhanced_confidence)]

\* ConservativeEnhancement with the confidence capped as in the matched branch
ConservativeEnhancementCapped(o, timeframe, base_confidence) ==
    [pair |-> PairOf(o),
     timeframe |-> timeframe,
     original_confidence |-> base_confidence,
     enhanced_confidence |-> Min(ConfidenceCap, base_confidence + FallbackBoost),
     confidence_improvement |-> FallbackBoost,
     original_position_size |-> Float(PositionOf(o)),
     enhanced_position_size |-> Float(PositionOf(o)),
     kelly_multiplier |-> FallbackKelly,
     expected_return |-> FallbackReturn,
     power_upgrade_applied |-> FALSE,
     signal_strength |-> "WEAK"]

\* the branch taken for an unknown pattern
ConservativeEnhancement(o, timeframe, base_confidence) ==
    [pair |-> PairOf(o),
     timeframe |-> timeframe,
     original_confidence |-> base_confidence,
     enhanced_confidence |-> base_confidence + FallbackBoost,
     confidence_improvement |-> FallbackBoost,
     original_position_size |-> Float(PositionOf(o)),
     enhanced_position_size |-> Float(PositionOf(o)),
     kelly_multiplier |-> FallbackKelly,
     expected_return |-> FallbackReturn,
     power_upgrade_applied |-> FALSE,
     signal_strength |-> "WEAK"]

\* the statements of the try block that can raise: .get on a non-dict,
\* .upper() on a non-string, float() of a non-number
Raises(data) ==
    \/ data.kind # "object"
    \/ ~IsStr(TimeframeOf(data.obj))
    \/ ~FloatOk(ConfidenceOf(data.obj))
    \/ ~FloatOk(PositionOf(data.obj))

\* an except clause that answers with a default signal instead of None
OnExceptionDefaultSignal(data) ==
    [pair |-> JStr(UNKNOWN),
     timeframe |-> DAILY,
     original_confidence |-> DefaultConfidence,
     enhanced_confidence |-> DefaultConfidence + FallbackBoost,
     confidence_improvement |-> FallbackBoost,
     original_position_size |-> DefaultPositionSize,
     enhanced_position_size |-> DefaultPositionSize,
     kelly_multiplier |-> FallbackKelly,
     expected_return |-> FallbackReturn,
     power_upgrade_applied |-> FALSE,
     signal_strength |-> "WEAK"]

\* what `except Exception` returns
OnException(data) == None

enhance_signal(data) ==
    IF Raises(data) THEN OnException(data)
    ELSE LET o == data.obj
             timeframe == Upper(TimeframeOf(o).s)
             base_confidence == Float(ConfidenceOf(o))
             pattern_key == PatternKey(Format(PairOf(o)), timeframe)
         IN  IF pattern_key \in DOMAIN power_patterns
             THEN PowerUpgrade(o, timeframe, base_confidence, power_patterns[pattern_key])
             ELSE ConservativeEnhancement(o, timeframe, base_confidence)

----------------------------------------------------------------------------
(* The rolling history and the aggregate *)

\* a deque without maxlen
DequeAppendUnbounded(q, x) == Append(q, x)

\* a bounded buffer that refuses the new entry when full
DequeAppendDropNewest(q, x) ==
    IF Len(q) >= HistoryCap THEN q ELSE Append(q, x)

\* deque(maxlen=HistoryCap).append(x): a full deque drops its oldest entry
DequeAppend(q, x) ==
    IF Len(q) >= HistoryCap THEN Append(Tail(q), x) ELSE Append(q, x)

RECURSIVE SumConfidence(_)
\* sum(s['enhanced_confidence'] for s in signals_history)
SumConfidence(q) ==
    IF q = <<>> THEN 0 ELSE Head(q).enhanced_confidence + SumConfidence(Tail(q))

\* sum(all_confidences) / len(all_confidences), over the history after the append
AvgConfidence(history) ==
    [num |-> SumConfidence(history), den |-> Len(history)]

\* CountSignal with the average taken over the total count, not the retained one
CountSignalAvgOverTotal(stats, sig, history) ==
    [stats EXCEPT
        !.total_signals = @ + 1,
        !.signals_today = @ + 1,
        !.high_confidence_signals =
            IF sig.enhanced_confidence > HighConfidenceAbove THEN @ + 1 ELSE @,
        !.avg_confidence = [num |-> SumConfidence(history), den |-> stats.total_signals + 1]]

\* CountSignal with the daily counter left for a scheduler to maintain
CountSignalTotalOnly(stats, sig, history) ==
    [stats EXCEPT
        !.total_signals = @ + 1,
        !.high_confidence_signals =
            IF sig.enhanced_confidence > HighConfidenceAbove THEN @ + 1 ELSE @,
        !.avg_confidence = AvgConfidence(history)]

\* the updates of performance_stats that precede active_pairs.add
CountSignal(stats, sig, history) ==
    [stats EXCEPT
        !.total_signals = @ + 1,
        !.signals_today = @ + 1,
        !.high_confidence_signals =
            IF sig.enhanced_confidence > HighConfidenceAbove THEN @ + 1 ELSE @,
        !.avg_confidence = AvgConfidence(history)]

\* performance_stats['active_pairs'].add(enhanced_signal['pair'])
AddActivePair(stats, sig) ==
    [stats EXCEPT !.active_pairs = @ \cup {sig.pair}]

----------------------------------------------------------------------------
(* Requests *)

\* request.get_json(): the parsed value, None, or an exception.  A body that
\* is not valid JSON makes the parser raise (werkzeug BadRequest).  A request
\* without a JSON body or content type yields None or raises, depending on
\* the installed Flask release.
GetJsonOutcomes(body) ==
    CASE body.kind = "malformed" -> {"raise"}
      [] body.kind = "missing" -> {"none", "raise"}
      [] OTHER -> {"value"}

\* `not data` for a parsed value
Falsy(body) == body.kind \in {"null", "emptyobj", "emptylist"}

Response(op, status) == [op |-> op, status |-> status]
Request(op, body) == [op |-> op, body |-> body]

\* the `if enhanced_signal:` branch of tradingview_webhook
StoreSignal(sig) ==
    LET history == DequeAppend(signals_history, sig)
        all == Append(appended, sig)
        counted == CountSignal(performance_stats, sig, history)
    IN  /\ signals_history' = history
        /\ appended' = all
        /\ IF Hashable(sig.pair)
           THEN /\ performance_stats' = AddActivePair(counted, sig)
                /\ resp' = Response("webhook", 200)
           ELSE \* set.add raises, `except Exception` answers
                /\ performance_stats' = counted
                /\ resp' = Response("webhook", 500)

\* the `else` branch: enhance_signal returned None
EnhancementFailed ==
    /\ resp' = Response("webhook", 400)
    /\ UNCHANGED <<signals_history, performance_stats, appended>>

\* POST /webhook/tradingview
tradingview_webhook(body) ==
    /\ Len(appended) < MaxAppends
    /\ request' = Request("webhook", body)
    /\ \E outcome \in GetJsonOutcomes(body) :
         CASE outcome = "raise" ->
                /\ enhanced' = NotCalled
                /\ resp' = Response("webhook", 500)
                /\ UNCHANGED <<signals_history, performance_stats, appended>>
           [] outcome = "none" \/ Falsy(body) ->
                /\ enhanced' = NotCalled
                /\ resp' = Response("webhook", 400)
                /\ UNCHANGED <<signals_history, performance_stats, appended>>
           [] OTHER ->
                /\ enhanced' = enhance_signal(body)
                /\ IF enhanced' # None THEN StoreSignal(enhanced') ELSE EnhancementFailed

\* the canned input of POST /test-signal
TestSignalData ==
    JObject(Obj(JStr(GBPUSD), Absent, JStr(DAILY), JNum(TestConfidence), JNum(DefaultPositionSize)))

\* POST /test-signal
test_signal ==
    /\ request' = Request("test-signal", TestSignalData)
    /\ enhanced' = enhance_signal(TestSignalData)
    /\ resp' = Response("test-signal", 200)
    /\ UNCHANGED <<signals_history, performance_stats, appended>>

\* the slice [-50:] of get_signals, scaled down with the history
SignalsWindow == 1

\* a slice that keeps the oldest entries, list(signals_history)[:50]
RecentSignalsOldest(history) ==
    SubSeq(history, 1, IF Len(history) > SignalsWindow THEN SignalsWindow ELSE Len(history))

\* list(signals_history)[-50:]
RecentSignals(history) ==
    SubSeq(history,
           IF Len(history) > SignalsWindow THEN Len(history) - SignalsWindow + 1 ELSE 1,
           Len(history))

\* jsonify(...) of a list: status 200 and the list as body
ListResponse(op, body) == [op |-> op, status |-> 200, body |-> body]

\* GET /api/signals
get_signals ==
    /\ request' = Request("signals", JOther("missing"))
    /\ enhanced' = NotCalled
    /\ resp' = ListResponse("signals", RecentSignals(signals_history))
    /\ UNCHANGED <<signals_history, performance_stats, appended>>

----------------------------------------------------------------------------
(* Inputs *)

\* request bodies sent to the webhook
WebhookBodies ==
    { JOther("missing"), JOther("malformed"), JOther("null"), JOther("emptyobj"),
      JOther("emptylist"), JOther("list"), JOther("string"), JOther("number"),
      JObject(NoFields),
      JObject(Obj(JStr(GBPUSD), Absent, JStr(DAILY), JNum(72), JNum(2000))),
      JObject(Obj(JStr(AUDCAD), Absent, JStr(daily), JNum(50), JNum(10000))),
      JObject(Obj(Absent, JStr(XXXYYY), Absent, JNum(95), Absent)),
      JObject(Obj(JStr(gbpusd), Absent, JStr(DAILY), JNum(40), JNum(10000))),
      JObject(Obj(JList, Absent, Absent, JNumStr(90), Absent)),
      JObject(Obj(JStr(GBPUSD), Absent, JStr(DAILY), JStr(<<"x">>), Absent)),
      JObject(Obj(JStr(XXXYYY), Absent, JStr(DAILY), JNum(72), JNull)),
      JObject(Obj(JStr(GBPUSD), Absent, JNum(4), JNum(72), Absent)) }

\* arguments of enhance_signal taken one at a time
Pairs == {JStr(GBPUSD), JStr(AUDCAD), JStr(GBPNZD), JStr(gbpusd), JStr(XXXYYY), JList, Absent}
Symbols == {Absent, JStr(EURUSD)}
Timeframes == {Absent, JStr(DAILY), JStr(daily), JStr(H4), JStr(h4), JStr(MONTHLY), JNum(4)}
Confidences ==
    {Absent, JNull, JStr(<<"x">>), JNumStr(72)}
        \cup {JNum(c) : c \in {-10, 0, 45, 50, 60, 65, 72, 75, 76, 77, 80, 90, 91, 95, 100, 150}}
Positions ==
    {Absent, JNull, JStr(<<"x">>)}
        \cup {JNum(p) : p \in {0, 500, 2000, 9000, 10000, 100000}}

SignalArguments ==
    {JOther("list"), JOther("string"), JOther("number")}
        \cup {JObject(Obj(p, s, t, c, z)) :
                p \in Pairs, s \in Symbols, t \in Timeframes, c \in Confidences, z \in Positions}

----------------------------------------------------------------------------
(* Specifications *)

InitStats ==
    [total_signals |-> 0, signals_today |-> 0, high_confidence_signals |-> 0,
     avg_confidence |-> [num |-> 0, den |-> 1], active_pairs |-> {}]

Idle == Response("none", 0)

\* no concurrent call is running and nothing has been observed
Threads == 1..NumThreads
NoLocal == [body |-> JOther("missing"), sig |-> NotCalled, tmp |-> 0, status |-> 0]
NothingObserved == [appended |-> 0, total_signals |-> 0, len |-> 0, sum |-> 0,
                    avg_confidence |-> [num |-> 0, den |-> 1]]
ThreadsIdle ==
    /\ pc = [t \in Threads |-> "idle"]
    /\ local = [t \in Threads |-> NoLocal]
    /\ observed = NothingObserved

\* self.cache = {} at time 0, no call made yet
CacheEmpty ==
    /\ cache = <<>>
    /\ now = 0
    /\ calls = <<>>

\* the server: requests handled one after another
Init ==
    /\ signals_history = <<>>
    /\ performance_stats = InitStats
    /\ appended = <<>>
    /\ request = Request("none", JOther("missing"))
    /\ enhanced = NotCalled
    /\ resp = Idle
    /\ ThreadsIdle
    /\ CacheEmpty

Webhook ==
    /\ \E body \in WebhookBodies : tradingview_webhook(body)
    /\ UNCHANGED <<threadVars, cacheVars>>
TestSignal ==
    /\ test_signal
    /\ UNCHANGED <<threadVars, cacheVars>>
GetSignals ==
    /\ get_signals
    /\ UNCHANGED <<threadVars, cacheVars>>

Next == Webhook \/ TestSignal \/ GetSignals

Spec == Init /\ [][Next]_vars

\* enhance_signal alone, applied once to an arbitrary argument
InitEnhance ==
    /\ signals_history = <<>>
    /\ performance_stats = InitStats
    /\ appended = <<>>
    /\ request \in {Request("enhance_signal", d) : d \in SignalArguments}
    /\ enhanced = NotCalled
    /\ resp = Idle
    /\ ThreadsIdle
    /\ CacheEmpty

EnhanceCall ==
    /\ request.op = "enhance_signal"
    /\ enhanced = NotCalled
    /\ enhanced' = enhance_signal(request.body)
    /\ UNCHANGED <<signals_history, performance_stats, appended, request, resp>>
    /\ UNCHANGED <<threadVars, cacheVars>>

NextEnhance == EnhanceCall

SpecEnhance == InitEnhance /\ [][NextEnhance]_vars

----------------------------------------------------------------------------
(* Vocabulary of the properties *)

IsSignal(e) == e # None /\ e # NotCalled

NumericOrAbsent(x) == x.t \in {"absent", "num", "numstr"}
StringOrAbsent(x) == x.t \in {"absent", "str"}

\* a JSON object whose optional fields, where present, have the types the
\* contract gives them
WellTyped(d) ==
    /\ d.kind = "object"
    /\ StringOrAbsent(d.obj.timeframe)
    /\ NumericOrAbsent(d.obj.confidence)
    /\ NumericOrAbsent(d.obj.position_size)

\* the key (instrument, timeframe) of a well-typed signal
KeyOf(d) == PatternKey(Format(PairOf(d.obj)), Upper(TimeframeOf(d.obj).s))
InTable(d) == KeyOf(d) \in DOMAIN power_patterns

GivenConfidence(d) == Float(ConfidenceOf(d.obj))
GivenPosition(d) == Float(PositionOf(d.obj))

\* enhance_signal has been applied to a well-typed signal
Enhanced == request.op = "enhance_signal" /\ enhanced # NotCalled /\ WellTyped(request.body)

\* the last n entries of s
LastN(s, n) == SubSeq(s, Len(s) - Min(n, Len(s)) + 1, Len(s))

----------------------------------------------------------------------------
(* Properties of enhance_signal (specification SpecEnhance) *)

\* C1: for a signal whose key is in the pattern table, and any numeric
\* confidence, enhance_signal returns a record with the match flag true and
\* enhanced confidence = min(0.95, original confidence + the pattern's boost)
C1_MatchedConfidence ==
    (Enhanced /\ InTable(request.body)) =>
        /\ enhanced # None
        /\ enhanced.power_upgrade_applied = TRUE
        /\ LET sum == GivenConfidence(request.body)
                        + power_patterns[KeyOf(request.body)].confidence_boost
           IN  enhanced.enhanced_confidence = IF sum > 95 THEN 95 ELSE sum

\* a matched signal whose boosted confidence was cut back to 0.95
C1_Witness ==
    /\ Enhanced /\ InTable(request.body)
    /\ GivenConfidence(request.body) = 90
    /\ enhanced.enhanced_confidence = 95

\* C2: for a signal whose key is not in the pattern table, enhance_signal
\* returns enhanced confidence = original + 0.05, match flag false, expected
\* return 15.0, Kelly multiplier 1.0, strength WEAK and the position size
\* unchanged
C2_UnmatchedFallback ==
    (Enhanced /\ ~InTable(request.body)) =>
        /\ enhanced # None
        /\ enhanced.enhanced_confidence = GivenConfidence(request.body) + 5
        /\ enhanced.power_upgrade_applied = FALSE
        /\ enhanced.expected_return = 150
        /\ enhanced.kelly_multiplier = 1000
        /\ enhanced.signal_strength = "WEAK"
        /\ enhanced.original_position_size = GivenPosition(request.body)
        /\ enhanced.enhanced_position_size = GivenPosition(request.body)

\* an unmatched signal with confidence 0.95 and position size 10.0
C2_Witness ==
    /\ Enhanced /\ ~InTable(request.body)
    /\ enhanced.original_confidence = 95
    /\ enhanced.enhanced_confidence = 100
    /\ enhanced.enhanced_position_size = 10000

\* C4 as stated: the enhanced position size of every returned signal is at
\* most 5.0, matched or not
C4_PositionNeverAboveCap ==
    IsSignal(enhanced) => enhanced.enhanced_position_size <= 5000

\* C4: the enhanced position size of a matched signal is at most 5.0; that
\* of an unmatched signal equals the input position size, whatever it is
C4_MatchedPositionCapped ==
    Enhanced =>
        /\ enhanced # None
        /\ InTable(request.body) => enhanced.enhanced_position_size <= 5000
        /\ ~InTable(request.body) =>
               enhanced.enhanced_position_size = GivenPosition(request.body)

\* a matched signal whose scaled position size (10.0 x Kelly x 0.3 > 5.0)
\* was cut back to 5.0
C4_Witness ==
    /\ Enhanced /\ InTable(request.body)
    /\ GivenPosition(request.body) = 10000
    /\ enhanced.kelly_multiplier > 1666
    /\ enhanced.enhanced_position_size = 5000

----------------------------------------------------------------------------
(* Properties of the server (specification Spec) *)

\* C3: with input confidences in [0, 1], every signal produced and every
\* retained entry has enhanced confidence <= 0.95, matched or not
C3_ConfidenceNeverAboveCap ==
    /\ IsSignal(enhanced) =>
           (enhanced.original_confidence \in 0..100 => enhanced.enhanced_confidence <= 95)
    /\ \A i \in 1..Len(signals_history) :
           signals_history[i].original_confidence \in 0..100
               => signals_history[i].enhanced_confidence <= 95

\* C5: the history holds at most HistoryCap entries, and always exactly the
\* most recently appended ones, in insertion order
C5_RollingHistory ==
    /\ Len(signals_history) <= HistoryCap
    /\ signals_history = LastN(appended, HistoryCap)

\* two signals have been evicted, and the oldest retained one is not the
\* first one appended
C5_Witness ==
    /\ Len(appended) = HistoryCap + 2
    /\ Len(signals_history) = HistoryCap
    /\ signals_history[1] # appended[1]
    /\ signals_history[1] # signals_history[HistoryCap]

\* C6: whenever the history is non-empty, avg_confidence is the arithmetic
\* mean of the enhanced confidences of the retained entries
C6_AvgOverRetained ==
    signals_history # <<>> =>
        /\ performance_stats.avg_confidence.den > 0
        /\ performance_stats.avg_confidence.num * Len(signals_history)
               = SumConfidence(signals_history) * performance_stats.avg_confidence.den

\* an entry has been evicted and the mean over the retained entries differs
\* from the mean over everything appended
C6_Witness ==
    /\ Len(appended) > HistoryCap
    /\ SumConfidence(appended) * Len(signals_history)
           # SumConfidence(signals_history) * Len(appended)
    /\ performance_stats.avg_confidence.den = HistoryCap

\* C7: on a computation fault enhance_signal returns None, which no
\* successful call returns, and the webhook call leaves the history and
\* PerformanceStats as they were
C7_FaultReturnsNone ==
    [][(request'.op = "webhook" /\ enhanced' # NotCalled) =>
          IF WellTyped(request'.body)
          THEN enhanced' # None /\ enhanced'.power_upgrade_applied \in BOOLEAN
          ELSE /\ enhanced' = None
               /\ UNCHANGED <<signals_history, performance_stats>>]_vars

\* a webhook call with a non-numeric field has failed while the history
\* held signals
C7_Witness ==
    /\ request.op = "webhook"
    /\ request.body.kind = "object"
    /\ ~WellTyped(request.body)
    /\ enhanced = None
    /\ Len(signals_history) > 0
    /\ performance_stats.total_signals > 0

\* C8: a fault inside the enhancement logic is answered with status 500,
\* never with a 4xx status
C8_EnhancementFaultIs500 ==
    (request.op = "webhook" /\ enhanced = None) => resp.status = 500

\* C9: a request whose body is missing, empty or not parseable as JSON is
\* answered with status 400 and changes neither the history nor
\* PerformanceStats
C9_BadBodyIs400 ==
    [][(/\ request'.op = "webhook"
        /\ request'.body.kind \in {"missing", "malformed", "null", "emptyobj", "emptylist"})
          => /\ resp'.status = 400
             /\ UNCHANGED <<signals_history, performance_stats>>]_vars

\* the history after one more entry e
WithOneMore(q, e) == IF Len(q) < HistoryCap THEN Append(q, e) ELSE Append(Tail(q), e)

\* C10 as stated: every successful enhancement, from the webhook or from
\* /test-signal, appends one signal to the history and adds one to the total
C10_EveryEnhancementStored ==
    [][(request'.op \in {"webhook", "test-signal"} /\ IsSignal(enhanced')) =>
          /\ signals_history' = WithOneMore(signals_history, enhanced')
          /\ performance_stats'.total_signals = performance_stats.total_signals + 1]_vars

\* C10: every successful enhancement made by the webhook appends exactly one
\* signal to the history and adds one to the total; /test-signal changes
\* neither the history nor PerformanceStats
C10_WebhookEnhancementStored ==
    [][/\ (request'.op = "webhook" /\ IsSignal(enhanced')) =>
             /\ signals_history' = WithOneMore(signals_history, enhanced')
             /\ appended' = Append(appended, enhanced')
             /\ performance_stats'.total_signals = performance_stats.total_signals + 1
       /\ request'.op = "test-signal" =>
             UNCHANGED <<signals_history, performance_stats, appended>>]_vars

\* /test-signal has enhanced its canned signal after the webhook had filled
\* the history
C10_Witness ==
    /\ request.op = "test-signal"
    /\ IsSignal(enhanced)
    /\ Len(appended) > HistoryCap
    /\ performance_stats.total_signals = Len(appended)

----------------------------------------------------------------------------
(* Further properties of enhance_signal (specification SpecEnhance) *)

\* a string field in upper case; other values as they are
UpperCased(x) == IF x.t = "str" THEN JStr(Upper(x.s)) ELSE x

\* the same signal with instrument and timeframe written in upper case
InUpperCase(d) ==
    [d EXCEPT !.obj.ticker = UpperCased(@),
              !.obj.symbol = UpperCased(@),
              !.obj.timeframe = UpperCased(@)]

\* C11: the pattern lookup ignores letter case in instrument and timeframe:
\* a signal and the same signal written in upper case get the same match
\* flag and the same enhanced confidence
C11_CaseInsensitiveLookup ==
    Enhanced =>
        LET other == enhance_signal(InUpperCase(request.body))
        IN  /\ other.power_upgrade_applied = enhanced.power_upgrade_applied
            /\ other.enhanced_confidence = enhanced.enhanced_confidence

\* the label the thresholds give to a confidence
LabelOf(c) == IF c > 80 THEN "STRONG" ELSE IF c > 65 THEN "MODERATE" ELSE "WEAK"

\* C19 as stated: the strength label of every returned signal follows from
\* its enhanced confidence alone (> 0.8 STRONG, > 0.65 MODERATE, else WEAK)
C19_StrengthFromConfidence ==
    (request.op = "enhance_signal" /\ IsSignal(enhanced)) =>
        enhanced.signal_strength = LabelOf(enhanced.enhanced_confidence)

\* C19: for a matched signal the strength label follows from the enhanced
\* confidence (> 0.8 STRONG, > 0.65 and <= 0.8 MODERATE, else WEAK); for an
\* unmatched signal it is WEAK whatever the enhanced confidence
C19_MatchedStrengthFromConfidence ==
    (request.op = "enhance_signal" /\ IsSignal(enhanced)) =>
        enhanced.signal_strength =
            IF enhanced.power_upgrade_applied
            THEN LabelOf(enhanced.enhanced_confidence)
            ELSE "WEAK"

\* a matched signal whose enhanced confidence is exactly 0.80 is MODERATE
C19_Witness ==
    /\ request.op = "enhance_signal" /\ IsSignal(enhanced)
    /\ enhanced.power_upgrade_applied
    /\ enhanced.enhanced_confidence = 80
    /\ enhanced.signal_strength = "MODERATE"

----------------------------------------------------------------------------
(* The webhook under a threaded server (app.run serves each request in its *)
(* own thread; the handler takes no lock).  A handler is cut at its        *)
(* accesses to the shared signals_history and performance_stats: each      *)
(* `+= 1` is a read followed by a write.  What a handler does on its own   *)
(* locals (get_json, enhance_signal) is one step.                          *)

\* bodies sent to the threaded server
ThreadBodies ==
    { JOther("malformed"),
      JObject(Obj(JStr(GBPUSD), Absent, JStr(DAILY), JNum(72), JNum(2000))),
      JObject(Obj(JList, Absent, Absent, JNum(40), Absent)),
      JObject(Obj(JStr(GBPUSD), Absent, JStr(DAILY), JStr(<<"x">>), Absent)) }

InFlight == {t \in Threads : pc[t] # "idle"}

Goto(t, label) == pc' = [pc EXCEPT ![t] = label]

\* a handler that tries again when enhance_signal fails
AfterEnhanceRetry(sig) == IF sig # None THEN "append" ELSE "received"

\* `if enhanced_signal:` - on to the store, or straight to the error answer
AfterEnhance(sig) == IF sig # None THEN "append" ELSE "done"

\* a request reaches the server and is given a thread
Arrive(t, body) ==
    /\ pc[t] = "idle"
    /\ Len(appended) + Cardinality(InFlight) < MaxRequests
    /\ local' = [local EXCEPT ![t] = [NoLocal EXCEPT !.body = body]]
    /\ Goto(t, "received")
    /\ UNCHANGED <<serverVars, observed, cacheVars>>

\* request.get_json(), `if not data`, signal_processor.enhance_signal(data)
Handle(t) ==
    /\ pc[t] = "received"
    /\ \E outcome \in GetJsonOutcomes(local[t].body) :
         CASE outcome = "raise" ->
                /\ local' = [local EXCEPT ![t].status = 500]
                /\ Goto(t, "done")
           [] outcome = "none" \/ Falsy(local[t].body) ->
                /\ local' = [local EXCEPT ![t].status = 400]
                /\ Goto(t, "done")
           [] OTHER ->
                LET sig == enhance_signal(local[t].body)
                IN  /\ local' = [local EXCEPT ![t].sig = sig,
                                              ![t].status = IF sig # None THEN 0 ELSE 400]
                    /\ Goto(t, AfterEnhance(sig))
    /\ UNCHANGED <<serverVars, observed, cacheVars>>

\* signals_history.append(enhanced_signal)
AppendStep(t) ==
    /\ pc[t] = "append"
    /\ signals_history' = DequeAppend(signals_history, local[t].sig)
    /\ appended' = Append(appended, local[t].sig)
    /\ Goto(t, "read_total")
    /\ UNCHANGED <<performance_stats, request, enhanced, resp, local, observed, cacheVars>>

\* the read half of performance_stats[field] += 1
ReadCounter(t, at, field, next) ==
    /\ pc[t] = at
    /\ local' = [local EXCEPT ![t].tmp = performance_stats[field]]
    /\ Goto(t, next)
    /\ UNCHANGED <<serverVars, observed, cacheVars>>

\* the write half of performance_stats[field] += 1
WriteCounter(t, at, field, next) ==
    /\ pc[t] = at
    /\ performance_stats' = [performance_stats EXCEPT ![field] = local[t].tmp + 1]
    /\ Goto(t, next)
    /\ UNCHANGED <<signals_history, appended, request, enhanced, resp, local, observed, cacheVars>>

\* if enhanced_signal['enhanced_confidence'] > 0.8
AfterToday(sig) ==
    IF sig.enhanced_confidence > HighConfidenceAbove THEN "read_high" ELSE "avg"

CountSteps(t) ==
    \/ ReadCounter(t, "read_total", "total_signals", "write_total")
    \/ WriteCounter(t, "write_total", "total_signals", "read_today")
    \/ ReadCounter(t, "read_today", "signals_today", "write_today")
    \/ WriteCounter(t, "write_today", "signals_today", AfterToday(local[t].sig))
    \/ ReadCounter(t, "read_high", "high_confidence_signals", "write_high")
    \/ WriteCounter(t, "write_high", "high_confidence_signals", "avg")

\* performance_stats['avg_confidence'] = sum(all_confidences) / len(all_confidences)
AvgStep(t) ==
    /\ pc[t] = "avg"
    /\ performance_stats' =
           [performance_stats EXCEPT !.avg_confidence = AvgConfidence(signals_history)]
    /\ Goto(t, "add_pair")
    /\ UNCHANGED <<signals_history, appended, request, enhanced, resp, local, observed, cacheVars>>

\* performance_stats['active_pairs'].add(...), then the answer: 200, or 500
\* from `except Exception` when the pair cannot be hashed
AddPairStep(t) ==
    /\ pc[t] = "add_pair"
    /\ IF Hashable(local[t].sig.pair)
       THEN /\ performance_stats' = AddActivePair(performance_stats, local[t].sig)
            /\ local' = [local EXCEPT ![t].status = 200]
       ELSE /\ UNCHANGED performance_stats
            /\ local' = [local EXCEPT ![t].status = 500]
    /\ Goto(t, "done")
    /\ UNCHANGED <<signals_history, appended, request, enhanced, resp, observed, cacheVars>>

\* the response has been sent; the thread is free for the next request
Return(t) ==
    /\ pc[t] = "done"
    /\ local' = [local EXCEPT ![t] = NoLocal]
    /\ Goto(t, "idle")
    /\ UNCHANGED <<serverVars, observed, cacheVars>>

\* a reader (GET /, GET /api/performance, GET /api/signals) looks at the
\* history and the aggregate at one instant
Read ==
    /\ observed' = [appended |-> Len(appended),
                    total_signals |-> performance_stats.total_signals,
                    len |-> Len(signals_history),
                    sum |-> SumConfidence(signals_history),
                    avg_confidence |-> performance_stats.avg_confidence]
    /\ UNCHANGED <<serverVars, pc, local, cacheVars>>

\* what a handler does once its request has arrived
HandlerStep(t) ==
    \/ Handle(t)
    \/ AppendStep(t)
    \/ CountSteps(t)
    \/ AvgStep(t)
    \/ AddPairStep(t)
    \/ Return(t)

InitThreads == Init

Arrival == \E t \in Threads, body \in ThreadBodies : Arrive(t, body)
Handler == \E t \in Threads : HandlerStep(t)

NextThreads == Arrival \/ Handler \/ Read

SpecThreads == InitThreads /\ [][NextThreads]_vars

\* the handlers alone; every thread that can take a step eventually takes one
NextHandlers == Arrival \/ Handler

SpecHandlers ==
    InitThreads /\ [][NextHandlers]_vars /\ \A t \in Threads : WF_vars(HandlerStep(t))

----------------------------------------------------------------------------
(* Properties of the threaded server *)

\* C20: every request to the webhook is eventually answered with status
\* 200, 400 or 500, whatever its body and whatever fault occurs, and its
\* thread is then free again for the next request
C20_EveryRequestAnswered ==
    \A t \in Threads :
        /\ (pc[t] = "received") ~> (pc[t] = "done" /\ local[t].status \in {200, 400, 500})
        /\ (pc[t] = "done") ~> (pc[t] = "idle")

\* a request whose signal was stored but whose pair could not be hashed has
\* been answered with 500 while another request is being handled
C20_Witness ==
    \E t, u \in Threads :
        /\ pc[t] = "done" /\ local[t].status = 500 /\ IsSignal(local[t].sig)
        /\ pc[u] \notin {"idle", "done"}


\* C16: no reader sees the history already holding a new signal while
\* total_signals or avg_confidence do not yet reflect it, or the reverse
C16_ReaderSeesConsistentState ==
    /\ observed.total_signals = observed.appended
    /\ observed.len > 0 =>
           observed.avg_confidence.num * observed.len
               = observed.sum * observed.avg_confidence.den

\* the stored signals with enhanced confidence above 0.8
HighConfidence == {i \in 1..Len(appended) : appended[i].enhanced_confidence > 80}

\* C17: once all handlers have finished, total_signals is the number of
\* calls whose enhancement succeeded and high_confidence_signals the number
\* of those with enhanced confidence > 0.8
C17_NoLostUpdate ==
    (\A t \in Threads : pc[t] \in {"idle", "done"}) =>
        /\ performance_stats.total_signals = Len(appended)
        /\ performance_stats.high_confidence_signals = Cardinality(HighConfidence)

----------------------------------------------------------------------------
(* RealFundamentalEngine.get_cached_or_fetch (src/real_fundamental_engine.py) *)

\* the {} returned when nothing can be served
EmptyPayload == [kind |-> "empty"]

\* what a fetch function does: return a payload or raise
Fetched(data) == [ok |-> TRUE, data |-> data]
FetchRaises == [ok |-> FALSE, data |-> EmptyPayload]

\* self.cache[cache_key] = (data, time)
Entry(data, time) == [data |-> data, time |-> time]
Store(c, key, entry) == [k \in DOMAIN c \cup {key} |-> IF k = key THEN entry ELSE c[k]]

\* a freshness test that takes cache_duration for minutes
FreshMinutes(entry, t) == (t - entry.time) < CacheDuration \div 60

\* (now - cached_time).total_seconds() < self.cache_duration
Fresh(entry, t) == (t - entry.time) < CacheDuration

\* `cache_key in self.cache` and the entry is fresh
Hit(c, key, t) == key \in DOMAIN c /\ Fresh(c[key], t)

\* the result of a call: the cache afterwards, the value returned, whether
\* the fetch function was invoked and whether it raised
CallResult(c, returned, fetched, raised) ==
    [cache |-> c, returned |-> returned, fetched |-> fetched, raised |-> raised]

\* an except clause that also renews the timestamp of the stale entry
OnFetchErrorRenew(c, key, t) ==
    IF key \in DOMAIN c
    THEN CallResult(Store(c, key, Entry(c[key].data, t)), c[key].data, TRUE, TRUE)
    ELSE CallResult(c, EmptyPayload, TRUE, TRUE)

\* the except clause: the cached data even if expired, else {}
OnFetchError(c, key, t) ==
    IF key \in DOMAIN c
    THEN CallResult(c, c[key].data, TRUE, TRUE)
    ELSE CallResult(c, EmptyPayload, TRUE, TRUE)

\* a try block that on a fault stores the old payload again as if just fetched
FetchAndStoreOldOnFault(c, key, t, outcome) ==
    IF outcome.ok
    THEN CallResult(Store(c, key, Entry(outcome.data, t)), outcome.data, TRUE, FALSE)
    ELSE IF key \in DOMAIN c
    THEN CallResult(Store(c, key, Entry(c[key].data, t)), c[key].data, TRUE, TRUE)
    ELSE CallResult(c, EmptyPayload, TRUE, TRUE)

\* the try block: fetch, store with the time read at the start of the call
FetchAndStore(c, key, t, outcome) ==
    IF outcome.ok
    THEN CallResult(Store(c, key, Entry(outcome.data, t)), outcome.data, TRUE, FALSE)
    ELSE OnFetchError(c, key, t)

get_cached_or_fetch(c, key, t, outcome) ==
    IF Hit(c, key, t)
    THEN CallResult(c, c[key].data, FALSE, FALSE)
    ELSE FetchAndStore(c, key, t, outcome)

\* cache keys and fetch results used to exercise the cache
MarketDataKey == <<"m","a","r","k","e","t","_","d","a","t","a">>
NewsKey(pair) == <<"n","e","w","s","_">> \o pair
CacheKeys == {MarketDataKey, NewsKey(EURUSD)}
Payload(v) == [kind |-> "data", v |-> v]
FetchOutcomes == {Fetched(Payload(1)), Fetched(Payload(2)), FetchRaises}

CallRecord(key, t, r) ==
    [key |-> key, time |-> t, fetched |-> r.fetched, raised |-> r.raised,
     returned |-> r.returned]

\* one whole call, made at the current time
CachedCall(key, outcome) ==
    /\ Len(calls) < MaxCalls
    /\ LET r == get_cached_or_fetch(cache, key, now, outcome)
       IN  /\ cache' = r.cache
           /\ calls' = Append(calls, CallRecord(key, now, r))
    /\ UNCHANGED <<serverVars, threadVars, now>>

\* time passes
Tick ==
    /\ now + TickSeconds <= MaxTime
    /\ now' = now + TickSeconds
    /\ UNCHANGED <<serverVars, threadVars, cache, calls>>

InitCache == Init

Call == \E key \in CacheKeys, outcome \in FetchOutcomes : CachedCall(key, outcome)

NextCache == Call \/ Tick

SpecCache == InitCache /\ [][NextCache]_vars

----------------------------------------------------------------------------
(* Properties of the cache (specification SpecCache) *)

\* C12 as stated: of two calls for one key less than 300 seconds apart, the
\* first having found no fresh entry, only the first invokes the fetch
\* function, and the second returns what the first returned
C12_OneFetchPerWindow ==
    \A i, j \in 1..Len(calls) :
        (/\ i < j
         /\ calls[i].key = calls[j].key
         /\ calls[j].time - calls[i].time < 300
         /\ calls[i].fetched)
            => (~calls[j].fetched /\ calls[j].returned = calls[i].returned)

\* C12: of two calls for one key less than 300 seconds apart, the first
\* having found no fresh entry and its fetch having returned, only the first
\* invokes the fetch function, and the second returns what the first returned
C12_OneFetchPerWindowAfterSuccess ==
    \A i, j \in 1..Len(calls) :
        (/\ i < j
         /\ calls[i].key = calls[j].key
         /\ calls[j].time - calls[i].time < 300
         /\ calls[i].fetched
         /\ ~calls[i].raised)
            => (~calls[j].fetched /\ calls[j].returned = calls[i].returned)

\* a call fetched and stored, and a later call for the same key inside the window
\* was served from the cache
C12_Witness ==
    \E i, j \in 1..Len(calls) :
        /\ i < j
        /\ calls[i].key = calls[j].key
        /\ calls[j].time - calls[i].time > 0
        /\ calls[j].time - calls[i].time < 300
        /\ calls[i].fetched /\ ~calls[i].raised
        /\ ~calls[j].fetched
        /\ calls[j].returned = calls[i].returned

\* the call made in this step, if one was
CallMade == Len(calls') = Len(calls) + 1
LastCall == calls'[Len(calls')]

\* C13: when the fetch function raises, the call still returns: the cached
\* payload for the key if there is one, even an expired one, else the empty
\* payload; and the cache entry is left as it was
C13_FetchFaultServesStale ==
    [][(CallMade /\ LastCall.raised) =>
          /\ cache' = cache
          /\ LastCall.returned =
                 IF LastCall.key \in DOMAIN cache
                 THEN cache[LastCall.key].data
                 ELSE EmptyPayload]_vars

\* a failed refresh of an expired entry returned the expired payload
C13_Witness ==
    \E i \in 1..Len(calls) :
        /\ calls[i].raised
        /\ calls[i].key \in DOMAIN cache
        /\ calls[i].time - cache[calls[i].key].time >= 300
        /\ calls[i].returned = cache[calls[i].key].data
        /\ calls[i].returned # EmptyPayload

----------------------------------------------------------------------------
(* get_cached_or_fetch called from several threads: the engine holds no lock,
   so a call is two steps, the freshness test and the return of the fetch,
   and other calls run in between *)

\* the frame of a running call: its key and the `now` it read at line 56
CallFrame(key, t, returned) == [key |-> key, time |-> t, returned |-> returned]

\* lines 56-61: read the clock, test the cache, return the fresh entry or
\* start the fetch
CallBegin(t, key) ==
    /\ pc[t] = "idle"
    /\ Len(calls) + Cardinality(InFlight) < MaxCalls
    /\ IF Hit(cache, key, now)
       THEN /\ Goto(t, "returned")
            /\ local' = [local EXCEPT ![t] = CallFrame(key, now, cache[key].data)]
            /\ calls' = Append(calls,
                   CallRecord(key, now, CallResult(cache, cache[key].data, FALSE, FALSE)))
       ELSE /\ Goto(t, "fetching")
            /\ local' = [local EXCEPT ![t] = CallFrame(key, now, EmptyPayload)]
            /\ calls' = calls
    /\ UNCHANGED <<serverVars, observed, cache, now>>

\* lines 64-73: the fetch function returns or raises
FetchReturn(t, outcome) ==
    /\ pc[t] = "fetching"
    /\ LET r == FetchAndStore(cache, local[t].key, local[t].time, outcome)
       IN  /\ cache' = r.cache
           /\ local' = [local EXCEPT ![t].returned = r.returned]
           /\ calls' = Append(calls, CallRecord(local[t].key, local[t].time, r))
    /\ Goto(t, "returned")
    /\ UNCHANGED <<serverVars, observed, now>>

\* the caller has its value
CallReturn(t) ==
    /\ pc[t] = "returned"
    /\ Goto(t, "idle")
    /\ local' = [local EXCEPT ![t] = NoLocal]
    /\ UNCHANGED <<serverVars, observed, cacheVars>>

InitCallers == Init

Begin == \E t \in Threads, key \in CacheKeys : CallBegin(t, key)

FetchEnd == \E t \in Threads, outcome \in FetchOutcomes : FetchReturn(t, outcome)

Returned == \E t \in Threads : CallReturn(t)

NextCallers == Begin \/ FetchEnd \/ Returned \/ Tick

SpecCallers == InitCallers /\ [][NextCallers]_vars

\* C18: calls for one key that overlap never have the fetch function running
\* twice at the same time
C18_NoDuplicateFetchInFlight ==
    \A t, u \in Threads :
        (t # u /\ pc[t] = "fetching" /\ pc[u] = "fetching")
            => local[t].key # local[u].key

----------------------------------------------------------------------------
(* The fundamental overlay (src/real_fundamental_engine.py).

   Units: percent changes in tenths of a percent; sentiment score, sentiment
   confidence and currency factors in tenths; the enhancement factor in
   millionths; confidences entering in hundredths and leaving in units of
   1e-8, so that every product is an exact integer.  The advisory
   risk_sentiment and currency_factors entries of fundamental_data, the
   article list and the timestamps are left out. *)

USD == <<"U","S","D">>
CAD == <<"C","A","D">>
JPY == <<"J","P","Y">>
CHF == <<"C","H","F">>
AUD == <<"A","U","D">>
NZD == <<"N","Z","D">>
USDJPY == USD \o JPY
USDCAD == USD \o CAD
CHFJPY == CHF \o JPY
AUDNZD == AUD \o NZD

\* 1.0 as a factor, and the bounds of line 458
FactorUnit == 1000000
FactorFloor == 700000
FactorCeiling == 1400000

\* the bounds of line 472, and the default confidence of line 376
EnhancedFloor == 10000000
EnhancedCeiling == 95000000
DefaultOriginalConfidence == 70

Abs(x) == IF x < 0 THEN -x ELSE x
Max(a, b) == IF a > b THEN a ELSE b
Sign(x) == IF x > 0 THEN 1 ELSE -1

\* s[:n] and s[n:]
Take(s, n) == SubSeq(s, 1, Min(n, Len(s)))
Drop(s, n) == SubSeq(s, Min(n, Len(s)) + 1, Len(s))

\* a market snapshot: change_pct of the indicators that could be fetched
Snapshot(change) == [kind |-> "market", change |-> change]
Has(m, name) == m.kind = "market" /\ name \in DOMAIN m.change
ChangePct(m, name) == m.change[name]

\* the record built at lines 186-202; min(0.8, n / 15) in tenths, exact for
\* the article counts used here (multiples of 3)
NewsRecord(score, n) ==
    [kind |-> "news", sentiment_score |-> score, articles_analyzed |-> n,
     confidence |-> Min(8, (2 * n) \div 3)]
NeutralNews == NewsRecord(0, 0)

\* the fetchers swallow every fault (lines 107-109 and 204-213)
fetch_real_market_data(world) == IF world.ok THEN world.data ELSE EmptyPayload
fetch_real_news_sentiment(world) == IF world.ok THEN world.data ELSE NeutralNews

NoFactors == [base_factors |-> <<>>, quote_factors |-> <<>>]
Join(a, b) == [base_factors |-> a.base_factors \o b.base_factors,
               quote_factors |-> a.quote_factors \o b.quote_factors]

\* a quote side that receives the contribution with its sign unchanged
SideSameSign(isBase, v) ==
    IF isBase
    THEN [base_factors |-> <<v>>, quote_factors |-> <<>>]
    ELSE [base_factors |-> <<>>, quote_factors |-> <<v>>]

\* append v to the base side, or its inverse to the quote side
Side(isBase, v) ==
    IF isBase
    THEN [base_factors |-> <<v>>, quote_factors |-> <<>>]
    ELSE [base_factors |-> <<>>, quote_factors |-> <<-v>>]

\* lines 289-296: dollar index, abs(change) > 0.3
DxyRule(base, quote, m) ==
    IF (base = USD \/ quote = USD) /\ Has(m, "DXY") /\ Abs(ChangePct(m, "DXY")) > 3
    THEN Side(base = USD, 10 * Sign(ChangePct(m, "DXY")))
    ELSE NoFactors

\* lines 299-306: treasury yield, abs(change) > 1, weight 0.5
TnxRule(base, quote, m) ==
    IF (base = USD \/ quote = USD) /\ Has(m, "TNX") /\ Abs(ChangePct(m, "TNX")) > 10
    THEN Side(base = USD, 5 * Sign(ChangePct(m, "TNX")))
    ELSE NoFactors

\* lines 309-317: oil, abs(change) > 1, weight 0.7
OilRule(base, quote, m) ==
    IF (base = CAD \/ quote = CAD) /\ Has(m, "OIL") /\ Abs(ChangePct(m, "OIL")) > 10
    THEN Side(base = CAD, 7 * Sign(ChangePct(m, "OIL")))
    ELSE NoFactors

\* lines 322-338: volatility index beyond 5 percent, gold beyond 1 percent
VixPart(m) ==
    IF ~Has(m, "VIX") THEN 0
    ELSE IF ChangePct(m, "VIX") > 50 THEN 10
    ELSE IF ChangePct(m, "VIX") < -50 THEN -10 ELSE 0
GoldPart(m) ==
    IF ~Has(m, "GLD") THEN 0
    ELSE IF ChangePct(m, "GLD") > 10 THEN 5
    ELSE IF ChangePct(m, "GLD") < -10 THEN -5 ELSE 0
SafeHavenFactor(m) == VixPart(m) + GoldPart(m)

\* lines 320-344, one turn of the loop over JPY and CHF
SafeHavenRule(curr, base, quote, m) ==
    IF (base = curr \/ quote = curr) /\ SafeHavenFactor(m) # 0
    THEN Side(base = curr, SafeHavenFactor(m))
    ELSE NoFactors

\* lines 350-357: equity index beyond 1 percent
RiskFactor(m) ==
    IF ~Has(m, "SPX") THEN 0
    ELSE IF ChangePct(m, "SPX") > 10 THEN 1
    ELSE IF ChangePct(m, "SPX") < -10 THEN -1 ELSE 0

\* lines 347-363, one turn of the loop over AUD and NZD, weight 0.6
RiskRule(curr, base, quote, m) ==
    IF (base = curr \/ quote = curr) /\ RiskFactor(m) # 0
    THEN Side(base = curr, 6 * RiskFactor(m))
    ELSE NoFactors

\* currency_pair[:3] raises for a number or None (caught at line 367); a list
\* slices but equals no currency code
calculate_currency_specific_factors(currency_pair, m) ==
    IF ~IsStr(currency_pair) THEN NoFactors
    ELSE LET base == Take(currency_pair.s, 3)
             quote == Drop(currency_pair.s, 3)
         IN  Join(DxyRule(base, quote, m),
             Join(TnxRule(base, quote, m),
             Join(OilRule(base, quote, m),
             Join(SafeHavenRule(JPY, base, quote, m),
             Join(SafeHavenRule(CHF, base, quote, m),
             Join(RiskRule(AUD, base, quote, m),
                  RiskRule(NZD, base, quote, m)))))))

RECURSIVE SumFactors(_)
\* sum(factors), 0 for the empty list
SumFactors(q) == IF q = <<>> THEN 0 ELSE Head(q) + SumFactors(Tail(q))

Clamp(x, lo, hi) == Max(lo, Min(hi, x))

\* lines 433-439: 1 + score * confidence * 0.15, in ten-thousandths
SentimentMultiplier(news) ==
    IF news.kind = "news" /\ news.articles_analyzed > 0 /\ news.confidence > 2
    THEN 10000 + 15 * news.sentiment_score * news.confidence
    ELSE 10000

\* lines 446-450: base_factor + quote_factor
TotalCurrencyFactor(factors) ==
    SumFactors(factors.base_factors) + SumFactors(factors.quote_factors)

\* a currency impact of total * 0.1 without the clamp of line 454
CurrencyMultiplierUnclamped(currency_pair, m) ==
    LET total == TotalCurrencyFactor(calculate_currency_specific_factors(currency_pair, m))
    IN  IF Abs(total) > 1 THEN 100 + total ELSE 100

\* lines 443-455: 1 + clamp(total * 0.1, -0.2, 0.2), in hundredths
CurrencyMultiplier(currency_pair, m) ==
    LET total == TotalCurrencyFactor(calculate_currency_specific_factors(currency_pair, m))
    IN  IF Abs(total) > 1 THEN 100 + Clamp(total, -20, 20) ELSE 100

\* lines 430-455: the factor before the clamp of line 458, in millionths
UnclampedFactor(currency_pair, m, news) ==
    SentimentMultiplier(news) * CurrencyMultiplier(currency_pair, m)

\* the except clause (line 464) covers a news value that is no dict
calculate_enhancement_factor(currency_pair, m, news) ==
    IF news.kind \notin {"news", "empty"} THEN FactorUnit
    ELSE Clamp(UnclampedFactor(currency_pair, m, news), FactorFloor, FactorCeiling)

\* the product returned without the clamp of line 472
apply_enhancement_unclamped(original_confidence, enhancement_factor) ==
    original_confidence * enhancement_factor

apply_enhancement(original_confidence, enhancement_factor) ==
    Clamp(original_confidence * enhancement_factor, EnhancedFloor, EnhancedCeiling)

\* signal_data.get('ticker', 'EURUSD') and signal_data.get('confidence', 0.7)
CurrencyPairOf(o) == Get(o, "ticker", JStr(EURUSD))
OriginalConfidenceOf(o) == Get(o, "confidence", JNum(DefaultOriginalConfidence))

\* signal_data.get raises for a value that is no dict, float() for a
\* confidence that is no number
OverlayRaises(data) ==
    \/ data.kind # "object"
    \/ ~FloatOk(OriginalConfidenceOf(data.obj))

\* signal_data.copy() updated with the fields of lines 403-415
EnhancedSignal(data, original_confidence, enhanced_confidence, factor, m, news) ==
    [signal |-> data,
     original_confidence |-> original_confidence,
     enhanced_confidence |-> enhanced_confidence,
     enhancement_factor |-> factor,
     fundamental_data |-> [market_data |-> m, news_sentiment |-> news]]

\* the outcome of a call: the value returned, the cache afterwards, the
\* get_cached_or_fetch calls made and the faults met on the way
OverlayResult(returned, c, made, faults) ==
    [returned |-> returned, cache |-> c, made |-> made, faults |-> faults]

\* an except clause that returns None, as enhance_signal of app.py does
OnOverlayErrorNone(data) == None

\* lines 421-424: return signal_data
OnOverlayError(data) == data

\* lines 374-419; marketWorld and newsWorld are what the network does if
\* the fetchers are reached
enhance_signal_with_real_fundamentals(c, t, data, marketWorld, newsWorld) ==
    IF OverlayRaises(data)
    THEN OverlayResult(OnOverlayError(data), c, <<>>, {"computation"})
    ELSE LET currency_pair == CurrencyPairOf(data.obj)
             original_confidence == Float(OriginalConfidenceOf(data.obj))
             news_key == NewsKey(Format(currency_pair))
             market == get_cached_or_fetch(c, MarketDataKey, t,
                           Fetched(fetch_real_market_data(marketWorld)))
             news == get_cached_or_fetch(market.cache, news_key, t,
                           Fetched(fetch_real_news_sentiment(newsWorld)))
             factor == calculate_enhancement_factor(
                           currency_pair, market.returned, news.returned)
             enhanced_confidence == apply_enhancement(original_confidence, factor)
         IN  OverlayResult(
                 EnhancedSignal(data, original_confidence, enhanced_confidence,
                                factor, market.returned, news.returned),
                 news.cache,
                 <<CallRecord(MarketDataKey, t, market), CallRecord(news_key, t, news)>>,
                 (IF market.fetched /\ ~marketWorld.ok THEN {"market_fetch"} ELSE {})
                     \cup (IF news.fetched /\ ~newsWorld.ok THEN {"news_fetch"} ELSE {}))

----------------------------------------------------------------------------
(* Inputs of the overlay *)

Indicators == {"DXY", "TNX", "OIL", "VIX", "GLD", "SPX"}

\* every indicator moved by the same amount
Uniform(x) == Snapshot([i \in Indicators |-> x])

\* changes on both sides of every threshold of the factor rules, a snapshot
\* with some indicators missing, and one with fear and gold opposed
Snapshots ==
    {Uniform(x) : x \in {-60, -11, -10, -4, -3, 0, 3, 4, 10, 11, 60}}
        \cup {Snapshot([i \in {"DXY", "SPX"} |-> 60]),
              Snapshot([i \in Indicators |-> IF i \in {"VIX", "GLD"} THEN -60 ELSE 60]),
              Snapshot([i \in Indicators |-> IF i = "VIX" THEN 60 ELSE -11])}

MarketWorlds == {FetchRaises} \cup {Fetched(m) : m \in Snapshots}

NewsRecords ==
    {NeutralNews} \cup
    {NewsRecord(score, n) : score \in {-10, -5, 0, 5, 10}, n \in {3, 6, 12, 30}}

NewsWorlds == {FetchRaises} \cup {Fetched(n) : n \in NewsRecords}

OverlayTickers ==
    {Absent, JNum(7), JStr(EURUSD), JStr(USDJPY), JStr(USDCAD), JStr(CHFJPY),
     JStr(AUDNZD), JStr(NZDUSD), JStr(GBPAUD), JStr(USD)}

OverlayConfidences ==
    {Absent, JNull, JStr(<<"x">>), JNumStr(72)}
        \cup {JNum(c) : c \in {-10, 0, 5, 50, 70, 90, 95, 150}}

OverlaySignals ==
    {JOther("list")}
        \cup {JObject(Obj(p, Absent, Absent, c, Absent)) :
                p \in OverlayTickers, c \in OverlayConfidences}

\* what an earlier call can have left behind: nothing, or a market snapshot
\* stored at time 0 that is by now either fresh or expired
EarlierMarket == Uniform(60)
OverlayCaches == {<<>>, Store(<<>>, MarketDataKey, Entry(EarlierMarket, 0))}

----------------------------------------------------------------------------
(* Specification of the overlay: one call on a signal *)

InitOverlay ==
    /\ signals_history = <<>>
    /\ performance_stats = InitStats
    /\ appended = <<>>
    /\ request \in {Request("enhance_signal_with_real_fundamentals", d) :
                        d \in OverlaySignals}
    /\ enhanced = NotCalled
    /\ resp = Idle
    /\ ThreadsIdle
    /\ cache \in OverlayCaches
    /\ now \in IF cache = <<>> THEN {0} ELSE {TickSeconds, CacheDuration}
    /\ calls = <<>>

OverlayCall ==
    /\ request.op = "enhance_signal_with_real_fundamentals"
    /\ enhanced = NotCalled
    /\ \E marketWorld \in MarketWorlds, newsWorld \in NewsWorlds :
          LET r == enhance_signal_with_real_fundamentals(
                       cache, now, request.body, marketWorld, newsWorld)
          IN  /\ enhanced' = r.returned
              /\ cache' = r.cache
              /\ calls' = calls \o r.made
              /\ resp' = Response(request.op, r.faults)
    /\ UNCHANGED <<signals_history, performance_stats, appended, request>>
    /\ UNCHANGED <<threadVars, now>>

NextOverlay == OverlayCall

SpecOverlay == InitOverlay /\ [][NextOverlay]_vars

----------------------------------------------------------------------------
(* Properties of the overlay (specification SpecOverlay) *)

\* the call has returned, and with which faults
OverlayReturned == enhanced # NotCalled
Faults == resp.status
Overlaid == OverlayReturned /\ "computation" \notin Faults

\* C14: whatever the market snapshot, the news record and the original
\* confidence, the enhancement factor lies in [0.7, 1.4] and the enhanced
\* confidence written into the signal lies in [0.1, 0.95]
C14_FactorAndConfidenceClamped ==
    Overlaid =>
        /\ enhanced.enhancement_factor >= 700000
        /\ enhanced.enhancement_factor <= 1400000
        /\ enhanced.enhanced_confidence >= 10000000
        /\ enhanced.enhanced_confidence <= 95000000

\* a confidence of 0.9 raised by news and currency factors together was cut
\* back to 0.95
C14_Witness ==
    /\ Overlaid
    /\ enhanced.enhancement_factor > 1300000
    /\ enhanced.original_confidence = 90
    /\ enhanced.original_confidence * enhanced.enhancement_factor > 95000000
    /\ enhanced.enhanced_confidence = 95000000

\* C15 as stated: after a failed market or news fetch or a computation
\* fault, the call returns the original signal unmodified
C15_AnyFaultReturnsOriginal ==
    (OverlayReturned /\ Faults # {}) => enhanced = request.body

\* C15: a computation fault (a signal that is no dict, a confidence that is
\* no number) makes the call return the original signal unmodified; a failed
\* fetch is absorbed instead: the call goes on with the empty snapshot or the
\* neutral news record and returns an enhanced copy of the signal; in no
\* case does the fault reach the caller
C15_FaultsAbsorbed ==
    OverlayReturned =>
        /\ "computation" \in Faults => enhanced = request.body
        /\ "computation" \notin Faults =>
              /\ enhanced.signal = request.body
              /\ "market_fetch" \in Faults =>
                    enhanced.fundamental_data.market_data = EmptyPayload
              /\ "news_fetch" \in Faults =>
                    enhanced.fundamental_data.news_sentiment = NeutralNews

\* a signal with a confidence that is no number came back as it went in
C15_Witness ==
    /\ OverlayReturned
    /\ Faults = {"computation"}
    /\ request.body.kind = "object"
    /\ ~FloatOk(OriginalConfidenceOf(request.body.obj))
    /\ enhanced = request.body

----------------------------------------------------------------------------
(* Further properties of the server (specification Spec) *)

----------------------------------------------------------------------------
(* Specification of the currency factors: calculate_currency_specific_factors
   applied to a pair and to the pair with its sides swapped *)

EUR == <<"E","U","R">>
GBP == <<"G","B","P">>
CurrencyCodes == {USD, CAD, JPY, CHF, AUD, NZD, EUR, GBP}

\* pairs of two distinct codes
CodePairs ==
    {JStr(b \o q) : b, q \in CurrencyCodes} \ {JStr(c \o c) : c \in CurrencyCodes}

\* quote followed by base
SwapSides(currency_pair) == JStr(Drop(currency_pair.s, 3) \o Take(currency_pair.s, 3))

\* every indicator strongly down, flat or strongly up, and the snapshots of
\* the overlay (thresholds, missing indicators)
FactorSnapshots ==
    {Snapshot(change) : change \in [Indicators -> {-60, 0, 60}]} \cup Snapshots

FactorsQuery(currency_pair, m) == [currency_pair |-> currency_pair, market_data |-> m]

InitFactors ==
    /\ signals_history = <<>>
    /\ performance_stats = InitStats
    /\ appended = <<>>
    /\ request \in {Request("calculate_currency_specific_factors", FactorsQuery(p, m)) :
                        p \in CodePairs, m \in FactorSnapshots}
    /\ enhanced = NotCalled
    /\ resp = Idle
    /\ ThreadsIdle
    /\ CacheEmpty

\* the factors of the pair, and of the swapped pair on the same snapshot
FactorsCall ==
    /\ request.op = "calculate_currency_specific_factors"
    /\ enhanced = NotCalled
    /\ enhanced' =
         [factors |-> calculate_currency_specific_factors(
                          request.body.currency_pair, request.body.market_data),
          swapped |-> calculate_currency_specific_factors(
                          SwapSides(request.body.currency_pair), request.body.market_data)]
    /\ UNCHANGED <<signals_history, performance_stats, appended, request, resp>>
    /\ UNCHANGED <<threadVars, cacheVars>>

NextFactors == FactorsCall

SpecFactors == InitFactors /\ [][NextFactors]_vars

\* both sides of the pair belong to the same rule group
SameGroup(currency_pair) ==
    {Take(currency_pair.s, 3), Drop(currency_pair.s, 3)} \in {{JPY, CHF}, {AUD, NZD}}

\* sum(base_factors) + sum(quote_factors), summed here element by element
RECURSIVE SumOf(_)
SumOf(q) == IF Len(q) = 0 THEN 0 ELSE q[1] + SumOf(SubSeq(q, 2, Len(q)))

\* C22: for a pair of two distinct currency codes and any snapshot, swapping
\* base and quote negates the total currency factor, and a pair whose sides
\* belong to the same rule group has total 0
C22_SwapNegatesTotal ==
    enhanced # NotCalled =>
        LET total == SumOf(enhanced.factors.base_factors)
                         + SumOf(enhanced.factors.quote_factors)
            swapped == SumOf(enhanced.swapped.base_factors)
                           + SumOf(enhanced.swapped.quote_factors)
        IN  /\ swapped = -total
            /\ SameGroup(request.body.currency_pair) => total = 0

\* USDCAD with factors on both sides and a total that is not 0
C22_Witness ==
    /\ enhanced # NotCalled
    /\ request.body.currency_pair = JStr(USD \o CAD)
    /\ enhanced.factors.base_factors # <<>>
    /\ enhanced.factors.quote_factors # <<>>
    /\ SumOf(enhanced.factors.base_factors) + SumOf(enhanced.factors.quote_factors) # 0
    /\ enhanced.swapped.base_factors # <<>>

----------------------------------------------------------------------------
(* Further properties of the overlay (specification SpecOverlay) *)

\* the inputs of the factor, as the enhanced signal records them
FactorPair == CurrencyPairOf(request.body.obj)
FactorMarket == enhanced.fundamental_data.market_data
FactorNews == enhanced.fundamental_data.news_sentiment

\* C25: for sentiment scores in [-1, 1] and sentiment confidence in [0, 0.8]
\* the sentiment multiplier lies in [0.88, 1.12] and is 1 unless the
\* confidence exceeds 0.2, the currency multiplier lies in [0.8, 1.2] and is 1
\* unless the absolute total currency factor exceeds 0.1, their product lies
\* in [0.704, 1.344], and the clamp to [0.7, 1.4] returns it unchanged
C25_ClampNeverBinds ==
    Overlaid =>
        LET sentiment == SentimentMultiplier(FactorNews)
            currency == CurrencyMultiplier(FactorPair, FactorMarket)
            total == TotalCurrencyFactor(
                         calculate_currency_specific_factors(FactorPair, FactorMarket))
            raw == UnclampedFactor(FactorPair, FactorMarket, FactorNews)
        IN  /\ sentiment >= 8800 /\ sentiment <= 11200
            /\ (FactorNews = EmptyPayload \/ FactorNews.confidence <= 2) => sentiment = 10000
            /\ currency >= 80 /\ currency <= 120
            /\ (total >= -1 /\ total <= 1) => currency = 100
            /\ raw >= 704000 /\ raw <= 1344000
            /\ enhanced.enhancement_factor = raw

\* the largest factor: the most favourable news at full confidence and a
\* currency total beyond the clamp of the impact
C25_Witness ==
    /\ Overlaid
    /\ FactorNews # EmptyPayload
    /\ FactorNews.sentiment_score = 10
    /\ FactorNews.confidence = 8
    /\ TotalCurrencyFactor(
           calculate_currency_specific_factors(FactorPair, FactorMarket)) > 20
    /\ enhanced.enhancement_factor = 1344000

----------------------------------------------------------------------------
(* Further properties of the cache (specification SpecCache) *)

\* the calls for the key of call i made after i and before j
Between(i, j) == {k \in (i + 1)..(j - 1) : calls[k].key = calls[i].key}

\* call i tried to refresh an expired entry, failed and served the old payload
FailedRefresh(i) == calls[i].raised /\ calls[i].returned # EmptyPayload

\* C23: a failed refresh of an expired entry does not renew its timestamp,
\* so every later call for the key invokes the fetch function again as long
\* as no fetch has succeeded; and once a fetch has succeeded, no call for the
\* key made within the next 300 seconds fetches
C23_RefetchUntilSuccess ==
    \A i, j \in 1..Len(calls) :
        (i < j /\ calls[i].key = calls[j].key) =>
            /\ (FailedRefresh(i) /\ \A k \in Between(i, j) : calls[k].raised)
                  => calls[j].fetched
            /\ (calls[i].fetched /\ ~calls[i].raised
                    /\ calls[j].time - calls[i].time < 300)
                  => ~calls[j].fetched

\* an entry was stored, its refresh failed after it had expired, and the next
\* call for the key fetched again, this time with success
C23_Witness ==
    \E i, j, k \in 1..Len(calls) :
        /\ i < j /\ j < k
        /\ calls[i].key = calls[j].key /\ calls[j].key = calls[k].key
        /\ calls[i].fetched /\ ~calls[i].raised
        /\ FailedRefresh(j)
        /\ calls[j].time - calls[i].time >= 300
        /\ calls[j].returned = calls[i].returned
        /\ calls[k].fetched /\ ~calls[k].raised

====
